---- MODULE Spec2Model ----
(***************************************************************************)
(* A model of toy-bnf's grammar engine (src/src/engine.rs): Engine::build  *)
(* with its three validation passes, the matcher match_rule/match_against  *)
(* with span capture, and the generator gen_random/gen_random_variant.     *)
(*                                                                         *)
(* Strings are sequences of bytes; a byte is written as a one-character    *)
(* string.  A Vec is a sequence, the BTreeMap of the Engine a function.    *)
(***************************************************************************)
EXTENDS Integers, Sequences, FiniteSets, TLC

VARIABLES
    ast,      \* the rule sequence handed to Engine::build (the parser's output)
    debug,    \* the debug flag handed to Engine::build
    built,    \* the outcome of Engine::build, [kind |-> "None"] before the call
    tree,     \* Engine.tree: rule name -> Rule, empty until build succeeds
    last      \* the last gen_random / match_rule call and what it returned

vars == <<ast, debug, built, tree, last>>

----------------------------------------------------------------------------
(* Bounds of the model *)

\* longest rule sequence handed to build in the build-only specification
MaxRules == 4
\* longest text handed to match_rule
MaxText == 3
\* longest watch list handed to match_rule
MaxWatch == 3
\* most draws one gen_random call takes from its random source
MaxDraws == 4
\* most characters of a text that holds multi-byte characters
MaxChars == 5

----------------------------------------------------------------------------
(* ast.rs: Atom, RuleVariant, Rule *)

Terminal(c) == [kind |-> "Terminal", content |-> c, name |-> ""]

NonTerminal(n) == [kind |-> "NonTerminal", content |-> <<>>, name |-> n]

RuleVariant(its) == [items |-> its]

Rule(n, vs) == [name |-> n, variants |-> vs]

\* the sequences over S of length lo..hi
SeqsOf(S, lo, hi) == UNION {[1..n -> S] : n \in lo..hi}

\* the elements of a sequence
Range(s) == {s[i] : i \in 1..Len(s)}

Min(x, y) == IF x <= y THEN x ELSE y

\* Vec::contains / slice::contains
Contains(s, x) == \E i \in 1..Len(s) : s[i] = x

----------------------------------------------------------------------------
(* Engine::build, pass 1: duplicated names (engine.rs 220-235) *)

\* DupScan as it would be if only the first duplicate were recorded
RECURSIVE DupScanFirstOnly(_, _, _, _)
DupScanFirstOnly(rules, i, names, dup) ==
    IF i > Len(rules) THEN [names |-> names, dup |-> dup]
    ELSE IF rules[i].name \in names
         THEN DupScanFirstOnly(rules, i + 1, names,
                               IF dup = <<>> THEN <<rules[i].name>> ELSE dup)
         ELSE DupScanFirstOnly(rules, i + 1, names \cup {rules[i].name}, dup)

\* the loop over ast from rule i on: names is the BTreeSet, dup the Vec
RECURSIVE DupScan(_, _, _, _)
DupScan(rules, i, names, dup) ==
    IF i > Len(rules) THEN [names |-> names, dup |-> dup]
    ELSE IF rules[i].name \in names
         THEN DupScan(rules, i + 1, names, Append(dup, rules[i].name))
         ELSE DupScan(rules, i + 1, names \cup {rules[i].name}, dup)

----------------------------------------------------------------------------
(* Engine::build, pass 2: undefined non-terminals (engine.rs 238-253) *)

NoMissing == [found |-> FALSE, rule |-> "", missing |-> ""]

\* MissingInItems as it would be if the last missing name of a variant were kept
RECURSIVE MissingInItemsLast(_, _, _, _)
MissingInItemsLast(rname, items, k, names) ==
    IF k > Len(items) THEN NoMissing
    ELSE LET rest == MissingInItemsLast(rname, items, k + 1, names)
         IN IF rest.found THEN rest
            ELSE IF items[k].kind = "NonTerminal" /\ items[k].name \notin names
                 THEN [found |-> TRUE, rule |-> rname, missing |-> items[k].name]
                 ELSE NoMissing

\* the loop over the items of one variant, from item k on
RECURSIVE MissingInItems(_, _, _, _)
MissingInItems(rname, items, k, names) ==
    IF k > Len(items) THEN NoMissing
    ELSE IF items[k].kind # "NonTerminal" THEN MissingInItems(rname, items, k + 1, names)
    ELSE IF items[k].name \in names THEN MissingInItems(rname, items, k + 1, names)
    ELSE [found |-> TRUE, rule |-> rname, missing |-> items[k].name]

\* the loop over the variants of one rule, from variant v on
RECURSIVE MissingInVariants(_, _, _)
MissingInVariants(rule, v, names) ==
    IF v > Len(rule.variants) THEN NoMissing
    ELSE LET m == MissingInItems(rule.name, rule.variants[v].items, 1, names)
         IN IF m.found THEN m ELSE MissingInVariants(rule, v + 1, names)

\* the loop over ast, from rule i on
RECURSIVE MissingInRules(_, _, _)
MissingInRules(rules, i, names) ==
    IF i > Len(rules) THEN NoMissing
    ELSE LET m == MissingInVariants(rules[i], 1, names)
         IN IF m.found THEN m ELSE MissingInRules(rules, i + 1, names)

----------------------------------------------------------------------------
(* Engine::check_recursion (engine.rs 184-214) *)
(* The result is the returned bool and in_stack as the call leaves it: a   *)
(* call that returns true leaves its marks set.                            *)

RECURSIVE CheckRecursion(_, _, _)
RECURSIVE CheckVariants(_, _, _, _)
RECURSIVE CheckTargets(_, _, _, _, _)
RECURSIVE CheckVariantsFirstOnly(_, _, _, _)

\* the inner loop `for (cidx, rule) in rules.iter().enumerate()`, from cidx on,
\* for variant v of rule idx, whose first atom is the NonTerminal name
CheckTargets(idx, v, cidx, in_stack, rules) ==
    IF cidx > Len(rules) THEN CheckVariants(idx, v + 1, in_stack, rules)
    ELSE IF rules[cidx].name # rules[idx].variants[v].items[1].name
         THEN CheckTargets(idx, v, cidx + 1, in_stack, rules)
    ELSE IF in_stack[cidx] THEN [found |-> TRUE, in_stack |-> in_stack]
    ELSE LET sub == CheckRecursion(cidx, in_stack, rules)
         IN IF sub.found THEN sub
            ELSE CheckTargets(idx, v, cidx + 1, sub.in_stack, rules)

\* CheckVariants as it would be if only the first variant of a rule were followed
CheckVariantsFirstOnly(idx, v, in_stack, rules) ==
    IF v > Len(rules[idx].variants) \/ v > 1
    THEN [found |-> FALSE, in_stack |-> [in_stack EXCEPT ![idx] = FALSE]]
    ELSE LET items == rules[idx].variants[v].items
         IN IF Len(items) = 0 THEN CheckVariantsFirstOnly(idx, v + 1, in_stack, rules)
            ELSE IF items[1].kind = "NonTerminal"
                 THEN CheckTargets(idx, v, 1, in_stack, rules)
                 ELSE CheckVariantsFirstOnly(idx, v + 1, in_stack, rules)

\* the loop over the variants of rule idx, from variant v on
CheckVariants(idx, v, in_stack, rules) ==
    IF v > Len(rules[idx].variants)
    THEN [found |-> FALSE, in_stack |-> [in_stack EXCEPT ![idx] = FALSE]]
    ELSE LET items == rules[idx].variants[v].items
         IN IF Len(items) = 0 THEN CheckVariants(idx, v + 1, in_stack, rules)
            ELSE IF items[1].kind = "NonTerminal"
                 THEN CheckTargets(idx, v, 1, in_stack, rules)
                 ELSE CheckVariants(idx, v + 1, in_stack, rules)

CheckRecursion(idx, in_stack, rules) ==
    CheckVariants(idx, 1, [in_stack EXCEPT ![idx] = TRUE], rules)

\* RecursionScan as it would be if the rules were started from in reverse
\* order of declaration
RECURSIVE RecursionScanReverse(_, _, _)
RecursionScanReverse(rules, idx, in_stack) ==
    IF idx > Len(rules) THEN [found |-> FALSE, rule |-> ""]
    ELSE LET at == Len(rules) + 1 - idx
             r == CheckRecursion(at, in_stack, rules)
         IN IF r.found THEN [found |-> TRUE, rule |-> rules[at].name]
            ELSE RecursionScanReverse(rules, idx + 1, r.in_stack)

\* Engine::build, pass 3 (engine.rs 256-261): the loop over ast from rule idx on
RECURSIVE RecursionScan(_, _, _)
RecursionScan(rules, idx, in_stack) ==
    IF idx > Len(rules) THEN [found |-> FALSE, rule |-> ""]
    ELSE LET r == CheckRecursion(idx, in_stack, rules)
         IN IF r.found THEN [found |-> TRUE, rule |-> rules[idx].name]
            ELSE RecursionScan(rules, idx + 1, r.in_stack)

----------------------------------------------------------------------------
(* Engine::build (engine.rs 218-270) *)

BuildOutcome(k, d, r, m) == [kind |-> k, dup |-> d, rule |-> r, missing |-> m]

NotBuilt == BuildOutcome("None", <<>>, "", "")

\* the BTreeMap filled by the last loop of build: a later insert replaces an
\* earlier one under the same key
BuildTree(rules) ==
    [n \in {rules[i].name : i \in 1..Len(rules)} |->
        rules[CHOOSE i \in 1..Len(rules) :
                /\ rules[i].name = n
                /\ \A j \in 1..Len(rules) : rules[j].name = n => j <= i]]

EmptyTree == [n \in {} |-> Rule("", <<>>)]

\* BuildResult as it would be if the undefined-name pass ran before the
\* duplicate pass
BuildResultUndefinedFirst(rules) ==
    LET scan == DupScan(rules, 1, {}, <<>>)
        miss == MissingInRules(rules, 1, scan.names)
        rec  == RecursionScan(rules, 1, [i \in 1..Len(rules) |-> FALSE])
    IN IF miss.found
       THEN BuildOutcome("InexistentNonTerminals", <<>>, miss.rule, miss.missing)
       ELSE IF scan.dup # <<>> THEN BuildOutcome("DuplicatedNames", scan.dup, "", "")
       ELSE IF rec.found THEN BuildOutcome("InfinityRecursion", <<>>, rec.rule, "")
       ELSE BuildOutcome("Ok", <<>>, "", "")

BuildResult(rules) ==
    LET scan == DupScan(rules, 1, {}, <<>>)
        miss == MissingInRules(rules, 1, scan.names)
        rec  == RecursionScan(rules, 1, [i \in 1..Len(rules) |-> FALSE])
    IN IF scan.dup # <<>> THEN BuildOutcome("DuplicatedNames", scan.dup, "", "")
       ELSE IF miss.found
            THEN BuildOutcome("InexistentNonTerminals", <<>>, miss.rule, miss.missing)
       ELSE IF rec.found THEN BuildOutcome("InfinityRecursion", <<>>, rec.rule, "")
       ELSE BuildOutcome("Ok", <<>>, "", "")

NoCall ==
    [op |-> "none", rule |-> "", to_watch |-> <<>>, data |-> <<>>, draws |-> <<>>,
     res |-> [kind |-> "None", name |-> "", spans |-> <<>>, str |-> <<>>]]

Build ==
    /\ built.kind = "None"
    /\ built' = BuildResult(ast)
    /\ tree' = IF built'.kind = "Ok" THEN BuildTree(ast) ELSE EmptyTree
    /\ UNCHANGED <<ast, debug, last>>

----------------------------------------------------------------------------
(* The inputs of match_rule and gen_random *)

\* names no grammar of the model declares
UndeclaredNames == {"q", "r"}

\* the rule names a caller passes: the keys of the Engine and two others
CallNames == DOMAIN tree \cup UndeclaredNames

\* the watch lists: up to MaxWatch names, none of them twice
WatchLists ==
    {w \in SeqsOf(CallNames, 0, Min(MaxWatch, Cardinality(CallNames))) :
        \A i, j \in 1..Len(w) : w[i] = w[j] => i = j}

\* the texts: every string of a's and b's up to MaxText bytes, and the texts
\* of the worked examples
Texts == SeqsOf({"a", "b"}, 0, MaxText) \cup {<<"1", "2">>, <<"a", "b", "c">>}

\* what the random source hands out: up to MaxDraws numbers below the most
\* variants a rule of the model has
DrawSeqs == SeqsOf(0..1, 0, MaxDraws)

----------------------------------------------------------------------------
(* Strings *)

\* the bytes that continue a multi-byte character: a str can be sliced only
\* where no such byte follows
ContinuationBytes == {"\\x80", "\\xA9"}

\* str::is_char_boundary, for a position i of 0..Len(data)
IsCharBoundary(data, i) ==
    i = 0 \/ i = Len(data) \/ data[i + 1] \notin ContinuationBytes

\* str::starts_with
StartsWith(data, content) ==
    /\ Len(content) <= Len(data)
    /\ SubSeq(data, 1, Len(content)) = content

\* &data[n..]
SliceFrom(data, n) == SubSeq(data, n + 1, Len(data))

\* the slice &data[..data.len().min(5)] of the trace panics off a boundary
TraceSlicePanics(data) == ~IsCharBoundary(data, Min(Len(data), 5))

\* the bytes of the two-byte character e-acute
EAcute == <<"\\xC3", "\\xA9">>

\* the characters of the texts that hold multi-byte characters, each as the
\* bytes that encode it
Utf8Chars == {<<"a">>, EAcute}

\* the bytes of a sequence of characters
RECURSIVE Encode(_)
Encode(cs) == IF cs = <<>> THEN <<>> ELSE Head(cs) \o Encode(Tail(cs))

\* the texts of up to MaxChars characters, one or two bytes each
Utf8Texts == {Encode(cs) : cs \in SeqsOf(Utf8Chars, 0, MaxChars)}

\* some Terminal of the rules holds a multi-byte character
HasMultiByte(rules) ==
    \E i \in 1..Len(rules) : \E v \in 1..Len(rules[i].variants) :
        \E k \in 1..Len(rules[i].variants[v].items) :
            LET item == rules[i].variants[v].items[k]
            IN /\ item.kind = "Terminal"
               /\ \E j \in 1..Len(item.content) : item.content[j] \in ContinuationBytes

\* the file a grammar is matched against (main.rs 157): multi-byte texts for
\* the grammars with multi-byte Terminals
FileTexts == IF HasMultiByte(ast) THEN Utf8Texts ELSE Texts

----------------------------------------------------------------------------
(* Engine::match_against (engine.rs 81-155) *)
(* dbg is self.debug.                                                       *)
(* A call returns Ok(proc) with outp extended, Err(()) with outp untouched, *)
(* or does not return: "Panic" when a trace slice falls inside a character, *)
(* "StackOverflow" when the recursion never ends.  The control flow of a    *)
(* call depends on the rule and the remaining data alone, so a chain of     *)
(* nested calls longer than rules * (Len(text) + 1) holds the same call     *)
(* twice and never ends: depth counts the calls still allowed.              *)

MatchOk(p, o) == [status |-> "Ok", proc |-> p, outp |-> o]

MatchErr(o) == [status |-> "Err", proc |-> 0, outp |-> o]

MatchAbort(how) == [status |-> how, proc |-> 0, outp |-> <<>>]

RECURSIVE MatchAgainst(_, _, _, _, _, _, _)
RECURSIVE MatchVariants(_, _, _, _, _, _, _, _)
RECURSIVE MatchItems(_, _, _, _, _, _, _, _, _, _)

\* MatchItems as it would be if the text were not advanced past a sub-rule
\* that matched
RECURSIVE MatchItemsNoAdvance(_, _, _, _, _, _, _, _, _, _)
MatchItemsNoAdvance(dbg, rule, v, k, to_watch, data, offset, proc, sub, depth) ==
    LET items == rule.variants[v].items
    IN IF k > Len(items) THEN MatchOk(proc, sub)
       ELSE IF items[k].kind = "Terminal"
            THEN LET content == items[k].content
                 IN IF ~StartsWith(data, content)
                    THEN IF dbg /\ TraceSlicePanics(data)
                         THEN MatchAbort("Panic")
                         ELSE MatchErr(sub)
                    ELSE MatchItemsNoAdvance(dbg, rule, v, k + 1, to_watch,
                                             SliceFrom(data, Len(content)), offset,
                                             proc + Len(content), sub, depth)
            ELSE LET r == MatchAgainst(dbg, tree[items[k].name], to_watch, data,
                                       offset + proc, sub, depth)
                 IN IF r.status = "Ok"
                    THEN MatchItemsNoAdvance(dbg, rule, v, k + 1, to_watch, data, offset,
                                             proc + r.proc, r.outp, depth)
                    ELSE IF r.status = "Err" THEN MatchErr(sub)
                    ELSE r

\* MatchItems as it would be if the text were not advanced past a Terminal
\* that matched
RECURSIVE MatchItemsTerminalStays(_, _, _, _, _, _, _, _, _, _)
MatchItemsTerminalStays(dbg, rule, v, k, to_watch, data, offset, proc, sub, depth) ==
    LET items == rule.variants[v].items
    IN IF k > Len(items) THEN MatchOk(proc, sub)
       ELSE IF items[k].kind = "Terminal"
            THEN LET content == items[k].content
                 IN IF ~StartsWith(data, content)
                    THEN IF dbg /\ TraceSlicePanics(data)
                         THEN MatchAbort("Panic")
                         ELSE MatchErr(sub)
                    ELSE MatchItemsTerminalStays(dbg, rule, v, k + 1, to_watch,
                                                 data, offset,
                                                 proc + Len(content), sub, depth)
            ELSE LET r == MatchAgainst(dbg, tree[items[k].name], to_watch, data,
                                       offset + proc, sub, depth)
                 IN IF r.status = "Ok"
                    THEN MatchItemsTerminalStays(dbg, rule, v, k + 1, to_watch,
                                                 SliceFrom(data, r.proc), offset,
                                                 proc + r.proc, r.outp, depth)
                    ELSE IF r.status = "Err" THEN MatchErr(sub)
                    ELSE r

\* MatchItems as it would be if a sub-rule that matched were tried again
\* through its later variants when a later atom of the variant fails
RECURSIVE MatchItemsRetry(_, _, _, _, _, _, _, _, _, _)
MatchItemsRetry(dbg, rule, v, k, to_watch, data, offset, proc, sub, depth) ==
    LET items == rule.variants[v].items
    IN IF k > Len(items) THEN MatchOk(proc, sub)
       ELSE IF items[k].kind = "Terminal"
            THEN LET content == items[k].content
                 IN IF ~StartsWith(data, content)
                    THEN IF dbg /\ TraceSlicePanics(data)
                         THEN MatchAbort("Panic")
                         ELSE MatchErr(sub)
                    ELSE MatchItemsRetry(dbg, rule, v, k + 1, to_watch,
                                         SliceFrom(data, Len(content)), offset,
                                         proc + Len(content), sub, depth)
            ELSE LET subrule == tree[items[k].name]
                     RECURSIVE Retry(_)
                     Retry(w) ==
                         IF w > Len(subrule.variants) THEN MatchErr(sub)
                         ELSE LET from == [subrule EXCEPT
                                              !.variants = SubSeq(@, w, Len(@))]
                                  r == MatchAgainst(dbg, from, to_watch, data,
                                                    offset + proc, sub, depth)
                              IN IF r.status = "Ok"
                                 THEN LET rest == MatchItemsRetry(
                                                      dbg, rule, v, k + 1, to_watch,
                                                      SliceFrom(data, r.proc), offset,
                                                      proc + r.proc, r.outp, depth)
                                      IN IF rest.status = "Err" THEN Retry(w + 1)
                                         ELSE rest
                                 ELSE IF r.status = "Err" THEN MatchErr(sub)
                                 ELSE r
                 IN Retry(1)

\* MatchItems as it would be if a Terminal advanced proc by its characters
\* and not by its bytes
RECURSIVE MatchItemsCharCount(_, _, _, _, _, _, _, _, _, _)
MatchItemsCharCount(dbg, rule, v, k, to_watch, data, offset, proc, sub, depth) ==
    LET items == rule.variants[v].items
    IN IF k > Len(items) THEN MatchOk(proc, sub)
       ELSE IF items[k].kind = "Terminal"
            THEN LET content == items[k].content
                     chars == Cardinality({j \in 1..Len(content) :
                                              content[j] \notin ContinuationBytes})
                 IN IF ~StartsWith(data, content)
                    THEN IF dbg /\ TraceSlicePanics(data)
                         THEN MatchAbort("Panic")
                         ELSE MatchErr(sub)
                    ELSE MatchItemsCharCount(dbg, rule, v, k + 1, to_watch,
                                             SliceFrom(data, Len(content)), offset,
                                             proc + chars, sub, depth)
            ELSE LET r == MatchAgainst(dbg, tree[items[k].name], to_watch, data,
                                       offset + proc, sub, depth)
                 IN IF r.status = "Ok"
                    THEN MatchItemsCharCount(dbg, rule, v, k + 1, to_watch,
                                             SliceFrom(data, r.proc), offset,
                                             proc + r.proc, r.outp, depth)
                    ELSE IF r.status = "Err" THEN MatchErr(sub)
                    ELSE r

\* the loop over the items of variant v of rule, from item k on: data is the
\* remaining text, proc the bytes consumed, sub the buffer of captured spans
MatchItems(dbg, rule, v, k, to_watch, data, offset, proc, sub, depth) ==
    LET items == rule.variants[v].items
    IN IF k > Len(items) THEN MatchOk(proc, sub)
       ELSE IF items[k].kind = "Terminal"
            THEN LET content == items[k].content
                 IN IF ~StartsWith(data, content)
                    THEN IF dbg /\ TraceSlicePanics(data)
                         THEN MatchAbort("Panic")
                         ELSE MatchErr(sub)
                    ELSE MatchItems(dbg, rule, v, k + 1, to_watch,
                                    SliceFrom(data, Len(content)), offset,
                                    proc + Len(content), sub, depth)
            ELSE LET r == MatchAgainst(dbg, tree[items[k].name], to_watch, data,
                                       offset + proc, sub, depth)
                 IN IF r.status = "Ok"
                    THEN MatchItems(dbg, rule, v, k + 1, to_watch,
                                    SliceFrom(data, r.proc), offset,
                                    proc + r.proc, r.outp, depth)
                    ELSE IF r.status = "Err" THEN MatchErr(sub)
                    ELSE r

\* MatchVariants as it would be without the sub.clear() at the head of the
\* variant loop: what an abandoned variant captured stays in sub
RECURSIVE MatchVariantsNoClear(_, _, _, _, _, _, _, _)
MatchVariantsNoClear(dbg, rule, v, to_watch, data, offset, outp, depth) ==
    LET RECURSIVE Loop(_, _)
        Loop(w, sub) ==
            IF w > Len(rule.variants) THEN MatchErr(outp)
            ELSE LET r == MatchItems(dbg, rule, w, 1, to_watch, data, offset, 0, sub, depth)
                 IN IF r.status = "Ok"
                    THEN MatchOk(r.proc,
                                 (IF Contains(to_watch, rule.name)
                                  THEN Append(outp, <<offset, offset + r.proc>>)
                                  ELSE outp) \o r.outp)
                    ELSE IF r.status = "Err" THEN Loop(w + 1, r.outp)
                    ELSE r
    IN Loop(v, <<>>)

\* MatchVariants as it would be if every variant were tried and the one that
\* consumes most won
RECURSIVE MatchVariantsLongest(_, _, _, _, _, _, _, _)
MatchVariantsLongest(dbg, rule, v, to_watch, data, offset, outp, depth) ==
    IF v > Len(rule.variants) THEN MatchErr(outp)
    ELSE LET r == MatchItems(dbg, rule, v, 1, to_watch, data, offset, 0, <<>>, depth)
             rest == MatchVariantsLongest(dbg, rule, v + 1, to_watch, data, offset,
                                          outp, depth)
             mine == MatchOk(r.proc,
                             (IF Contains(to_watch, rule.name)
                              THEN Append(outp, <<offset, offset + r.proc>>)
                              ELSE outp) \o r.outp)
         IN IF r.status = "Ok"
            THEN IF rest.status = "Ok" /\ rest.proc > r.proc THEN rest ELSE mine
            ELSE IF r.status = "Err" THEN rest
            ELSE r

\* the 'varloop over the variants of rule, from variant v on
MatchVariants(dbg, rule, v, to_watch, data, offset, outp, depth) ==
    IF v > Len(rule.variants) THEN MatchErr(outp)
    ELSE LET r == MatchItems(dbg, rule, v, 1, to_watch, data, offset, 0, <<>>, depth)
         IN IF r.status = "Ok"
            THEN MatchOk(r.proc,
                         (IF Contains(to_watch, rule.name)
                          THEN Append(outp, <<offset, offset + r.proc>>)
                          ELSE outp) \o r.outp)
            ELSE IF r.status = "Err"
                 THEN MatchVariants(dbg, rule, v + 1, to_watch, data, offset, outp, depth)
            ELSE r

MatchAgainst(dbg, rule, to_watch, data, offset, outp, depth) ==
    IF depth = 0 THEN MatchAbort("StackOverflow")
    ELSE IF dbg /\ TraceSlicePanics(data) THEN MatchAbort("Panic")
    ELSE MatchVariants(dbg, rule, 1, to_watch, data, offset, outp, depth - 1)

\* the longest chain of nested match_against calls of a run that ends
DepthLimit(data) == Cardinality(DOMAIN tree) * (Len(data) + 1)

----------------------------------------------------------------------------
(* Engine::match_rule (engine.rs 158-179) *)

CallResult(k, n, sp, st) == [kind |-> k, name |-> n, spans |-> sp, str |-> st]

\* BadWatch as it would be if the last name that is no key were reported
RECURSIVE BadWatchLast(_, _)
BadWatchLast(to_watch, i) ==
    IF i > Len(to_watch) THEN 0
    ELSE LET later == BadWatchLast(to_watch, i + 1)
         IN IF later # 0 THEN later
            ELSE IF to_watch[i] \notin DOMAIN tree THEN i ELSE 0

\* the loop over to_watch, from entry i on: the first name that is no key
RECURSIVE BadWatch(_, _)
BadWatch(to_watch, i) ==
    IF i > Len(to_watch) THEN 0
    ELSE IF to_watch[i] \notin DOMAIN tree THEN i
    ELSE BadWatch(to_watch, i + 1)

\* MatchRuleResult as it would be if a failed match were retried at the later
\* offsets of the text
MatchRuleResultScanning(dbg, initial, to_watch, data) ==
    LET RECURSIVE Scan(_)
        Scan(o) ==
            LET r == MatchAgainst(dbg, tree[initial], to_watch, SliceFrom(data, o), o,
                                  <<>>, DepthLimit(data) + 1)
            IN IF r.status = "Ok" THEN CallResult("Ok", "", r.outp, <<>>)
               ELSE IF r.status # "Err" THEN CallResult(r.status, "", <<>>, <<>>)
               ELSE IF o >= Len(data) THEN CallResult("NoMatches", "", <<>>, <<>>)
               ELSE Scan(o + 1)
    IN IF initial \notin DOMAIN tree
       THEN CallResult("BadInitialRule", initial, <<>>, <<>>)
       ELSE IF BadWatch(to_watch, 1) # 0
            THEN CallResult("BadWatchRule", to_watch[BadWatch(to_watch, 1)], <<>>, <<>>)
       ELSE Scan(0)

MatchRuleResult(dbg, initial, to_watch, data) ==
    IF initial \notin DOMAIN tree THEN CallResult("BadInitialRule", initial, <<>>, <<>>)
    ELSE IF BadWatch(to_watch, 1) # 0
         THEN CallResult("BadWatchRule", to_watch[BadWatch(to_watch, 1)], <<>>, <<>>)
    ELSE LET r == MatchAgainst(dbg, tree[initial], to_watch, data, 0, <<>>,
                               DepthLimit(data) + 1)
         IN IF r.status = "Ok" THEN CallResult("Ok", "", r.outp, <<>>)
            ELSE IF r.status = "Err" THEN CallResult("NoMatches", "", <<>>, <<>>)
            ELSE CallResult(r.status, "", <<>>, <<>>)

\* main builds the Engine and then makes its one call (main.rs 166)
MatchRule ==
    /\ built.kind = "Ok"
    /\ last.op = "none"
    /\ \E initial \in CallNames, to_watch \in WatchLists, data \in FileTexts :
          last' = [op |-> "match", rule |-> initial, to_watch |-> to_watch,
                   data |-> data, draws |-> <<>>,
                   res |-> MatchRuleResult(debug, initial, to_watch, data)]
    /\ UNCHANGED <<ast, debug, built, tree>>

----------------------------------------------------------------------------
(* Engine::gen_random_variant (engine.rs 44-62) *)
(* The random source is the sequence of numbers it will hand out, draws.   *)
(* A call returns the string and the draws left; done is FALSE when the    *)
(* draws ran out before the expansion ended.                               *)

GenDone(r, d) == [done |-> TRUE, res |-> r, draws |-> d]

GenMore == [done |-> FALSE, res |-> <<>>, draws |-> <<>>]

\* rng.gen_range(0..rule.variants.len()) on the draw d, as an index of
\* variants counted from 1; 0 when the range cannot yield d
PickVariant(rule, d) == IF d < Len(rule.variants) THEN d + 1 ELSE 0

RECURSIVE GenRandomVariant(_, _)
RECURSIVE GenItems(_, _, _, _)

\* GenItems as it would be if each expansion were put in front of the output
RECURSIVE GenItemsPrepend(_, _, _, _)
GenItemsPrepend(items, k, res, draws) ==
    IF k > Len(items) THEN GenDone(res, draws)
    ELSE IF items[k].kind = "Terminal"
         THEN GenItemsPrepend(items, k + 1, items[k].content \o res, draws)
         ELSE LET sub == GenRandomVariant(tree[items[k].name], draws)
              IN IF sub.done
                 THEN GenItemsPrepend(items, k + 1, sub.res \o res, sub.draws)
                 ELSE GenMore

\* the loop over the items of the chosen variant, from item k on
GenItems(items, k, res, draws) ==
    IF k > Len(items) THEN GenDone(res, draws)
    ELSE IF items[k].kind = "Terminal"
         THEN GenItems(items, k + 1, res \o items[k].content, draws)
         ELSE LET sub == GenRandomVariant(tree[items[k].name], draws)
              IN IF sub.done THEN GenItems(items, k + 1, res \o sub.res, sub.draws)
                 ELSE GenMore

GenRandomVariant(rule, draws) ==
    IF draws = <<>> \/ PickVariant(rule, Head(draws)) = 0 THEN GenMore
    ELSE GenItems(rule.variants[PickVariant(rule, Head(draws))].items, 1, <<>>,
                  Tail(draws))

----------------------------------------------------------------------------
(* Engine::gen_random (engine.rs 65-73) *)

\* gen_random returns for the draws its expansion uses up, all of them
GenRandom ==
    /\ built.kind = "Ok"
    /\ last.op = "none"
    /\ \E rule \in CallNames, draws \in DrawSeqs :
          /\ IF rule \in DOMAIN tree
             THEN LET g == GenRandomVariant(tree[rule], draws)
                  IN /\ g.done
                     /\ g.draws = <<>>
                     /\ last' = [op |-> "gen", rule |-> rule, to_watch |-> <<>>,
                                 data |-> <<>>, draws |-> draws,
                                 res |-> CallResult("Ok", "", <<>>, g.res)]
             ELSE /\ draws = <<>>
                  /\ last' = [op |-> "gen", rule |-> rule, to_watch |-> <<>>,
                              data |-> <<>>, draws |-> draws,
                              res |-> CallResult("BadRule", rule, <<>>, <<>>)]
    /\ UNCHANGED <<ast, debug, built, tree>>

----------------------------------------------------------------------------
(* The rule sequences handed to build in the build-only specification *)

\* rule names declared; "c" is referenced but never declared
DeclNames == {"a", "b"}

RefNames == {"a", "b", "c"}

BuildVariants ==
    {RuleVariant(<<>>),
     RuleVariant(<<Terminal(<<"x">>)>>),
     RuleVariant(<<Terminal(<<"x">>), NonTerminal("a")>>),
     RuleVariant(<<NonTerminal("b"), NonTerminal("c")>>)}
    \cup {RuleVariant(<<NonTerminal(n)>>) : n \in RefNames}

BuildRules ==
    {Rule(n, <<v>>) : n \in DeclNames, v \in BuildVariants}
    \cup {Rule(n, <<RuleVariant(<<Terminal(<<"x">>)>>), RuleVariant(<<NonTerminal("a")>>)>>) :
            n \in DeclNames}

InitBuild ==
    /\ \E n \in 0..MaxRules : ast \in [1..n -> BuildRules]
    /\ debug = FALSE
    /\ built = NotBuilt
    /\ tree = EmptyTree
    /\ last = NoCall

NextBuild == Build

SpecBuild == InitBuild /\ [][NextBuild]_vars

----------------------------------------------------------------------------
(* The grammars of the main specification *)

T(c) == RuleVariant(<<Terminal(c)>>)

\* the grammars the specification works through as examples
ExampleGrammars ==
    {<<Rule("x", <<T(<<"a">>), T(<<"a", "b">>)>>)>>,
     <<Rule("x", <<T(<<"a">>)>>)>>,
     <<Rule("s", <<RuleVariant(<<NonTerminal("a"), NonTerminal("b")>>)>>),
       Rule("a", <<T(<<"1">>)>>),
       Rule("b", <<T(<<"2">>)>>)>>,
     <<Rule("s", <<RuleVariant(<<NonTerminal("a"), Terminal(<<"c">>)>>)>>),
       Rule("a", <<T(<<"a">>), T(<<"a", "b">>)>>)>>,
     <<Rule("a", <<RuleVariant(<<Terminal(<<"a">>), NonTerminal("a")>>)>>)>>,
     <<Rule("a", <<RuleVariant(<<Terminal(<<>>), NonTerminal("a")>>), T(<<"a">>)>>)>>,
     <<Rule("a", <<RuleVariant(<<>>)>>)>>,
     <<Rule("a", <<RuleVariant(<<NonTerminal("a")>>)>>)>>}

\* the bodies of the rule s of the two-rule grammars
BodiesOfS ==
    LET V == {RuleVariant(<<NonTerminal("a")>>),
              RuleVariant(<<NonTerminal("a"), Terminal(<<"b">>)>>),
              RuleVariant(<<NonTerminal("a"), NonTerminal("a")>>)}
    IN {<<v>> : v \in V} \cup {p \in V \X V : p[1] # p[2]}

\* the bodies of the rule a of the two-rule grammars
BodiesOfA ==
    {<<T(<<"a">>)>>,
     <<T(<<"a", "b">>)>>,
     <<T(<<"a">>), T(<<"a", "b">>)>>,
     <<T(<<"a", "b">>), T(<<"a">>)>>,
     <<RuleVariant(<<Terminal(<<"a">>), NonTerminal("a")>>), T(<<"b">>)>>,
     <<RuleVariant(<<Terminal(<<"a">>), NonTerminal("a")>>), T(<<"a">>)>>}

TwoRuleGrammars ==
    {<<Rule("s", bs), Rule("a", ba)>> : bs \in BodiesOfS, ba \in BodiesOfA}

Grammars == ExampleGrammars \cup TwoRuleGrammars

Init ==
    /\ ast \in Grammars
    /\ debug \in (IF ast \in ExampleGrammars THEN BOOLEAN ELSE {FALSE})
    /\ built = NotBuilt
    /\ tree = EmptyTree
    /\ last = NoCall

Next == Build \/ MatchRule \/ GenRandom

Spec == Init /\ [][Next]_vars

\* grammars whose Terminals hold a multi-byte character
Utf8Grammars ==
    {<<Rule("x", <<T(EAcute), T(<<"a">>)>>)>>,
     <<Rule("s", <<RuleVariant(<<NonTerminal("x"), NonTerminal("x")>>)>>),
       Rule("x", <<T(EAcute), T(<<"a">>)>>)>>,
     <<Rule("w", <<RuleVariant(<<Terminal(<<"a">>), NonTerminal("w")>>), T(EAcute)>>)>>}

\* the runs on multi-byte texts, with the trace on and off
InitDebug ==
    /\ ast \in Utf8Grammars
    /\ debug \in BOOLEAN
    /\ built = NotBuilt
    /\ tree = EmptyTree
    /\ last = NoCall

SpecDebug == InitDebug /\ [][Next]_vars

----------------------------------------------------------------------------
(* What the claims about build speak of, stated on the input itself *)

\* the names that more than one rule of the input declares
RepeatedNames ==
    {ast[i].name : i \in {i \in 1..Len(ast) :
                            \E j \in 1..Len(ast) : j # i /\ ast[j].name = ast[i].name}}

DeclaredNames == {ast[i].name : i \in 1..Len(ast)}

\* the positions <<rule, variant, atom>> of the NonTerminal atoms that name no
\* declared rule
UndefinedAt ==
    {p \in UNION {UNION {{<<i, v, k>> : k \in 1..Len(ast[i].variants[v].items)} :
                            v \in 1..Len(ast[i].variants)} : i \in 1..Len(ast)} :
        LET atom == ast[p[1]].variants[p[2]].items[p[3]]
        IN atom.kind = "NonTerminal" /\ atom.name \notin DeclaredNames}

\* declaration order, then variant order, then atom order
Before(p, q) ==
    \/ p[1] < q[1]
    \/ p[1] = q[1] /\ p[2] < q[2]
    \/ p[1] = q[1] /\ p[2] = q[2] /\ p[3] <= q[3]

FirstUndefinedAt == CHOOSE p \in UndefinedAt : \A q \in UndefinedAt : Before(p, q)

\* the links rule -> target of the first atom of one of its variants, when that
\* atom is a NonTerminal, over a set of rules
FirstAtomLinks(rules) ==
    UNION {{<<r.name, r.variants[v].items[1].name>> :
                v \in {v \in 1..Len(r.variants) :
                          /\ Len(r.variants[v].items) > 0
                          /\ r.variants[v].items[1].kind = "NonTerminal"}} :
            r \in rules}

\* the transitive closure of a set of links
RECURSIVE Closure(_)
Closure(R) ==
    LET more == R \cup {<<pq[1][1], pq[2][2]>> :
                           pq \in {pq \in R \X R : pq[1][2] = pq[2][1]}}
    IN IF more = R THEN R ELSE Closure(more)

HasFirstAtomCycle(rules) == \E p \in Closure(FirstAtomLinks(rules)) : p[1] = p[2]

LeftRecursive == HasFirstAtomCycle(Range(ast))

----------------------------------------------------------------------------
(* Claims about Engine::build, checked under SpecBuild *)

\* C2: when some name is declared more than once, build fails with
\* DuplicatedNames(d) and the names in d, as a set, are exactly the names
\* declared more than once; when all names are distinct, build never returns
\* DuplicatedNames.
C2_DuplicatedNamesExact ==
    built.kind # "None" =>
        IF RepeatedNames # {}
        THEN built.kind = "DuplicatedNames" /\ Range(built.dup) = RepeatedNames
        ELSE built.kind # "DuplicatedNames"

\* build has reported two different names, each declared twice
C2_Witness ==
    /\ built.kind = "DuplicatedNames"
    /\ Cardinality(RepeatedNames) = 2
    /\ Len(built.dup) = 2

\* C3: with distinct names and some NonTerminal naming no declared rule, build
\* fails with InexistentNonTerminals(r, m) for the first such atom in
\* declaration, variant and atom order; and every NonTerminal of a returned
\* Engine names a key of its tree.
C3_FirstUndefinedReported ==
    /\ (built.kind # "None" /\ RepeatedNames = {} /\ UndefinedAt # {}) =>
            LET p == FirstUndefinedAt
            IN /\ built.kind = "InexistentNonTerminals"
               /\ built.rule = ast[p[1]].name
               /\ built.missing = ast[p[1]].variants[p[2]].items[p[3]].name
    /\ built.kind = "Ok" =>
            \A n \in DOMAIN tree : \A v \in 1..Len(tree[n].variants) :
                \A k \in 1..Len(tree[n].variants[v].items) :
                    tree[n].variants[v].items[k].kind = "NonTerminal" =>
                        tree[n].variants[v].items[k].name \in DOMAIN tree

\* build has reported the first of several undefined atoms, which name
\* different rules
C3_Witness ==
    /\ built.kind = "InexistentNonTerminals"
    /\ \E p \in UndefinedAt :
          ast[p[1]].variants[p[2]].items[p[3]].name # built.missing

\* C4: with distinct names and no undefined NonTerminal, build fails with
\* InfinityRecursion exactly when the first-atom links contain a cycle;
\* <a> ::= <a> is rejected with InfinityRecursion("a"), <a> ::= "x" <a> is
\* accepted, and no rule of a returned Engine reaches itself through
\* first-atom links.
C4_RecursionIffFirstAtomCycle ==
    /\ (built.kind # "None" /\ RepeatedNames = {} /\ UndefinedAt = {}) =>
            (built.kind = "InfinityRecursion" <=> LeftRecursive)
    /\ (built.kind # "None"
            /\ ast = <<Rule("a", <<RuleVariant(<<NonTerminal("a")>>)>>)>>) =>
            built = BuildOutcome("InfinityRecursion", <<>>, "a", "")
    /\ (built.kind # "None"
            /\ ast = <<Rule("a", <<RuleVariant(<<Terminal(<<"x">>), NonTerminal("a")>>)>>)>>) =>
            built.kind = "Ok"
    /\ built.kind = "Ok" =>
            ~HasFirstAtomCycle({tree[n] : n \in DOMAIN tree})

\* build has rejected a grammar whose only cycle runs through the second
\* variant of a rule and through two rules
C4_Witness ==
    /\ built.kind = "InfinityRecursion"
    /\ Len(ast) = 2
    /\ \E i \in 1..2 : Len(ast[i].variants) = 2
    /\ <<"a", "a">> \notin FirstAtomLinks(Range(ast))
    /\ <<"b", "b">> \notin FirstAtomLinks(Range(ast))

\* C5: the three passes run in the order duplicate names, undefined
\* non-terminals, left recursion, and the first failing pass decides the
\* error; an Engine is returned only when all three pass.
C5_PassOrder ==
    built.kind # "None" =>
        /\ RepeatedNames # {} => built.kind = "DuplicatedNames"
        /\ (RepeatedNames = {} /\ UndefinedAt # {}) =>
                built.kind = "InexistentNonTerminals"
        /\ built.kind = "Ok" <=>
                (RepeatedNames = {} /\ UndefinedAt = {} /\ ~LeftRecursive)

\* build has reported DuplicatedNames for an input that also has an undefined
\* NonTerminal and a first-atom cycle
C5_Witness ==
    /\ built.kind = "DuplicatedNames"
    /\ UndefinedAt # {}
    /\ LeftRecursive

----------------------------------------------------------------------------
(* What the claims about matching speak of, stated apart from the variant *)
(* loop and the span buffers of match_against                             *)

IsMatch == last.op = "match"

IsGen == last.op = "gen"

NamesExist ==
    /\ last.rule \in DOMAIN tree
    /\ \A i \in 1..Len(last.to_watch) : last.to_watch[i] \in DOMAIN tree

\* what match_against returns for the rule named n on data, captures aside
MatchLen(n, data) ==
    MatchAgainst(debug, tree[n], <<>>, data, 0, <<>>, DepthLimit(data) + 1)

\* the bytes the atoms items[k..] consume in sequence on data, -1 when one of
\* them does not match
RECURSIVE AtomsAdvance(_, _, _)
AtomsAdvance(items, k, data) ==
    IF k > Len(items) THEN 0
    ELSE LET step == IF items[k].kind = "Terminal"
                     THEN IF StartsWith(data, items[k].content)
                          THEN Len(items[k].content) ELSE -1
                     ELSE LET m == MatchLen(items[k].name, data)
                          IN IF m.status = "Ok" THEN m.proc ELSE -1
         IN IF step < 0 THEN -1
            ELSE LET rest == AtomsAdvance(items, k + 1, SliceFrom(data, step))
                 IN IF rest < 0 THEN -1 ELSE step + rest

\* the variants of the rule named n whose atoms all succeed in sequence on data
MatchingVariants(n, data) ==
    {v \in 1..Len(tree[n].variants) : AtomsAdvance(tree[n].variants[v].items, 1, data) >= 0}

\* the first of them in declaration order
FirstMatching(n, data) ==
    CHOOSE v \in MatchingVariants(n, data) : \A w \in MatchingVariants(n, data) : v <= w

\* the parse tree of a successful match of the rule named n on data at offset:
\* a node per rule matched, its children the NonTerminal atoms of the variant
\* that matched, left to right
RECURSIVE ParseTree(_, _, _)
RECURSIVE ParseKids(_, _, _, _)
ParseKids(items, k, data, offset) ==
    IF k > Len(items) THEN <<>>
    ELSE IF items[k].kind = "Terminal"
         THEN ParseKids(items, k + 1, SliceFrom(data, Len(items[k].content)),
                        offset + Len(items[k].content))
         ELSE LET m == MatchLen(items[k].name, data)
              IN <<ParseTree(items[k].name, data, offset)>>
                 \o ParseKids(items, k + 1, SliceFrom(data, m.proc), offset + m.proc)

ParseTree(n, data, offset) ==
    LET v == FirstMatching(n, data)
    IN [name |-> n,
        span |-> <<offset, offset + AtomsAdvance(tree[n].variants[v].items, 1, data)>>,
        kids |-> ParseKids(tree[n].variants[v].items, 1, data, offset)]

\* the pre-order listing of the spans of the watched nodes of a parse tree
RECURSIVE PreOrder(_, _)
RECURSIVE PreOrderAll(_, _, _)
PreOrderAll(kids, k, watched) ==
    IF k > Len(kids) THEN <<>>
    ELSE PreOrder(kids[k], watched) \o PreOrderAll(kids, k + 1, watched)

PreOrder(node, watched) ==
    (IF node.name \in watched THEN <<node.span>> ELSE <<>>)
    \o PreOrderAll(node.kids, 1, watched)

----------------------------------------------------------------------------
(* Claims about match_rule and gen_random, checked under Spec *)

TreeOfX == BuildTree(<<Rule("x", <<T(<<"a">>), T(<<"a", "b">>)>>)>>)

\* C6: a rule's match at an offset is that of the first variant, in
\* declaration order, whose atoms all succeed in sequence; it consumes the sum
\* of that variant's advances, and no later variant is tried even when it
\* would consume more.  For <x> ::= "a" | "ab", match_rule("x", ["x"], "ab")
\* is [(0,1)].
C6_FirstVariantWins ==
    (IsMatch /\ NamesExist) =>
        /\ \A n \in DOMAIN tree : \A o \in 0..Len(last.data) :
              LET d == SliceFrom(last.data, o)
                  m == MatchLen(n, d)
              IN /\ m.status = "Ok" =>
                        /\ MatchingVariants(n, d) # {}
                        /\ m.proc = AtomsAdvance(
                               tree[n].variants[FirstMatching(n, d)].items, 1, d)
                 /\ m.status = "Err" => MatchingVariants(n, d) = {}
        /\ last.res.kind = "Ok" <=> MatchLen(last.rule, last.data).status = "Ok"
        /\ (last.res.kind = "Ok" /\ Contains(last.to_watch, last.rule)) =>
              last.res.spans[1] = <<0, MatchLen(last.rule, last.data).proc>>
        /\ (tree = TreeOfX /\ last.rule = "x" /\ last.to_watch = <<"x">>
                /\ last.data = <<"a", "b">>) =>
              last.res = CallResult("Ok", "", <<<<0, 1>>>>, <<>>)

\* a match has succeeded through a variant although a later variant of the
\* initial rule matches more of the text
C6_Witness ==
    /\ IsMatch /\ last.res.kind = "Ok"
    /\ \E v \in MatchingVariants(last.rule, last.data) :
          /\ v > FirstMatching(last.rule, last.data)
          /\ AtomsAdvance(tree[last.rule].variants[v].items, 1, last.data)
                > MatchLen(last.rule, last.data).proc

TreeOfS ==
    BuildTree(<<Rule("s", <<RuleVariant(<<NonTerminal("a"), NonTerminal("b")>>)>>),
                Rule("a", <<T(<<"1">>)>>),
                Rule("b", <<T(<<"2">>)>>)>>)

\* C7: a successful match_rule returns the pre-order listing of the parse tree
\* restricted to the watched rules: a watched node's span once, before its
\* descendants', these in atom order; an unwatched node gives only its
\* descendants' spans; nothing captured by an abandoned variant appears.  For
\* <s> ::= <a> <b>, <a> ::= "1", <b> ::= "2", watching s, a, b on "12" gives
\* [(0,2), (0,1), (1,2)].
C7_PreOrderCapture ==
    /\ (IsMatch /\ last.res.kind = "Ok") =>
          last.res.spans = PreOrder(ParseTree(last.rule, last.data, 0),
                                    Range(last.to_watch))
    /\ (IsMatch /\ tree = TreeOfS /\ last.rule = "s"
            /\ Range(last.to_watch) = {"s", "a", "b"} /\ last.data = <<"1", "2">>) =>
          last.res = CallResult("Ok", "", <<<<0, 2>>, <<0, 1>>, <<1, 2>>>>, <<>>)

\* a match has succeeded through the second variant of an unwatched initial
\* rule after its first variant was abandoned behind a watched sub-rule that
\* had matched
C7_Witness ==
    /\ IsMatch /\ last.res.kind = "Ok"
    /\ ~Contains(last.to_watch, last.rule)
    /\ Len(last.res.spans) >= 2
    /\ FirstMatching(last.rule, last.data) = 2
    /\ LET first == tree[last.rule].variants[1].items[1]
       IN /\ first.kind = "NonTerminal"
          /\ Contains(last.to_watch, first.name)
          /\ MatchLen(first.name, last.data).status = "Ok"

TreeOfXa == BuildTree(<<Rule("x", <<T(<<"a">>)>>)>>)

\* C8: match_rule tries the initial rule at offset 0 only: when the rule does
\* not match there the result is NoMatches, also when it matches at a later
\* offset.  For <x> ::= "a", match_rule("x", ["x"], "ba") is NoMatches.
C8_Anchored ==
    (IsMatch /\ NamesExist) =>
        /\ MatchLen(last.rule, last.data).status = "Err" =>
              last.res = CallResult("NoMatches", "", <<>>, <<>>)
        /\ last.res.kind = "Ok" =>
              /\ MatchLen(last.rule, last.data).status = "Ok"
              /\ Contains(last.to_watch, last.rule) => last.res.spans[1][1] = 0
        /\ (tree = TreeOfXa /\ last.rule = "x" /\ last.to_watch = <<"x">>
                /\ last.data = <<"b", "a">>) =>
              last.res.kind = "NoMatches"

\* match_rule has returned NoMatches for a text in which the initial rule
\* matches at a later offset
C8_Witness ==
    /\ IsMatch /\ last.res.kind = "NoMatches"
    /\ \E o \in 1..Len(last.data) :
          MatchLen(last.rule, SliceFrom(last.data, o)).status = "Ok"

\* C9: match_rule returns BadInitialRule(initial) whenever initial is no rule
\* of the grammar; otherwise BadWatchRule(w) for the first watched name w that
\* is none; NoMatches or spans only when all names exist.  gen_random(r)
\* returns BadRule(r) whenever r is no rule of the grammar.
C9_NamesChecked ==
    /\ IsMatch =>
          /\ last.rule \notin DOMAIN tree =>
                last.res = CallResult("BadInitialRule", last.rule, <<>>, <<>>)
          /\ (last.rule \in DOMAIN tree /\ ~NamesExist) =>
                \E i \in 1..Len(last.to_watch) :
                    /\ last.to_watch[i] \notin DOMAIN tree
                    /\ \A j \in 1..(i - 1) : last.to_watch[j] \in DOMAIN tree
                    /\ last.res = CallResult("BadWatchRule", last.to_watch[i], <<>>, <<>>)
          /\ last.res.kind \in {"NoMatches", "Ok"} => NamesExist
          /\ last.res.kind \notin {"BadRule", "None"}
    /\ IsGen =>
          /\ last.rule \notin DOMAIN tree =>
                last.res = CallResult("BadRule", last.rule, <<>>, <<>>)
          /\ last.res.kind \in {"BadRule", "Ok"}
          /\ last.res.kind = "Ok" => last.rule \in DOMAIN tree

\* match_rule has reported the first of two different watched names that are
\* no rules, behind a watched name that is one
C9_Witness ==
    /\ IsMatch /\ last.res.kind = "BadWatchRule"
    /\ Len(last.to_watch) = 3
    /\ last.to_watch[1] \in DOMAIN tree
    /\ last.to_watch[2] \notin DOMAIN tree
    /\ last.to_watch[3] \notin DOMAIN tree

----------------------------------------------------------------------------
(* What the claims about generation speak of *)

\* the atoms items[k..] derive the string s in the grammar of the Engine, by a
\* derivation that nests at most fuel rules
RECURSIVE Derives(_, _, _, _)
Derives(items, k, s, fuel) ==
    IF k > Len(items) THEN s = <<>>
    ELSE IF items[k].kind = "Terminal"
         THEN /\ StartsWith(s, items[k].content)
              /\ Derives(items, k + 1, SliceFrom(s, Len(items[k].content)), fuel)
         ELSE /\ fuel > 0
              /\ \E i \in 0..Len(s) :
                    /\ \E v \in 1..Len(tree[items[k].name].variants) :
                          Derives(tree[items[k].name].variants[v].items, 1,
                                  SubSeq(s, 1, i), fuel - 1)
                    /\ Derives(items, k + 1, SliceFrom(s, i), fuel)

\* the links rule -> rule named by any atom of any of its variants
AtomLinks ==
    UNION {UNION {{<<n, tree[n].variants[v].items[k].name>> :
                        k \in {k \in 1..Len(tree[n].variants[v].items) :
                                 tree[n].variants[v].items[k].kind = "NonTerminal"}} :
                    v \in 1..Len(tree[n].variants)} : n \in DOMAIN tree}

\* the rule named n can occur in its own expansion
Recursive(n) == <<n, n>> \in Closure(AtomLinks)

\* every rule is finite: not recursive, or with a variant of Terminals only
FiniteGrammar ==
    \A n \in DOMAIN tree :
        \/ ~Recursive(n)
        \/ \E v \in 1..Len(tree[n].variants) :
              \A k \in 1..Len(tree[n].variants[v].items) :
                  tree[n].variants[v].items[k].kind = "Terminal"

\* every rule has one variant only, or variants that each start with a
\* non-empty Terminal, no two of them with the same first byte
PredictiveGrammar ==
    \A n \in DOMAIN tree :
        LET vs == tree[n].variants
        IN \/ Len(vs) = 1
           \/ /\ \A v \in 1..Len(vs) :
                    /\ Len(vs[v].items) > 0
                    /\ vs[v].items[1].kind = "Terminal"
                    /\ vs[v].items[1].content # <<>>
              /\ \A v, w \in 1..Len(vs) :
                    v # w => vs[v].items[1].content[1] # vs[w].items[1].content[1]

\* match_rule(r, [r], g) for the string g that gen_random(r) has returned
RoundTrip == MatchRuleResult(debug, last.rule, <<last.rule>>, last.res.str)

Generated == IsGen /\ last.res.kind = "Ok"

----------------------------------------------------------------------------
(* Claims about gen_random, checked under Spec *)

\* C10: every string gen_random(r) returns is derivable from r in the grammar:
\* one variant of r, its Terminals' contents unchanged and in atom order, each
\* NonTerminal replaced by a string derived the same way; and every variant of
\* a rule can be the one picked.
C10_GeneratedIsDerivable ==
    /\ Generated =>
          Derives(<<NonTerminal(last.rule)>>, 1, last.res.str, Len(last.draws))
    /\ \A n \in DOMAIN tree : \A v \in 1..Len(tree[n].variants) :
          \E d \in 0..(Len(tree[n].variants) - 1) : PickVariant(tree[n], d) = v

\* gen_random has returned a string of a sub-rule's expansion followed by a
\* Terminal, picking the second variant of a rule on the way
C10_Witness ==
    /\ Generated
    /\ Len(last.draws) >= 3
    /\ \E i \in 1..Len(last.draws) : last.draws[i] = 1
    /\ \E v \in 1..Len(tree[last.rule].variants) :
          LET items == tree[last.rule].variants[v].items
          IN /\ Len(items) = 2
             /\ items[1].kind = "NonTerminal"
             /\ items[2].kind = "Terminal"
             /\ Derives(items, 1, last.res.str, Len(last.draws))

----------------------------------------------------------------------------
(* Claims about the trace and the spans, on texts with multi-byte characters *)

\* C11: diagnostic mode does not affect matching: a match_rule call returns
\* the same outcome (the same spans or the same error) as the same call on an
\* Engine built from the same rules with the other value of debug, texts with
\* multi-byte characters included
C11_DebugDoesNotAffect ==
    IsMatch =>
        last.res = MatchRuleResult(~debug, last.rule, last.to_watch, last.data)


\* C12: every span (start, end) of a successful match_rule has
\* 0 <= start <= end <= Len(text) in bytes, start and end are positions where
\* the text can be sliced, text[start..end] is what a watched rule consumes at
\* start, and when the initial rule is watched the first span starts at 0
C12_SpansSliceTheText ==
    (IsMatch /\ last.res.kind = "Ok") =>
        /\ \A i \in 1..Len(last.res.spans) :
              LET start == last.res.spans[i][1]
                  end == last.res.spans[i][2]
              IN /\ 0 <= start
                 /\ start <= end
                 /\ end <= Len(last.data)
                 /\ IsCharBoundary(last.data, start)
                 /\ IsCharBoundary(last.data, end)
                 /\ \E n \in Range(last.to_watch) :
                       LET m == MatchLen(n, SliceFrom(last.data, start))
                       IN m.status = "Ok" /\ m.proc = end - start
        /\ Contains(last.to_watch, last.rule) =>
              /\ last.res.spans # <<>>
              /\ last.res.spans[1][1] = 0

\* a traced match on a text with a two-byte character returned a span that
\* starts right after that character and one that ends right after it
C12_Witness ==
    /\ IsMatch
    /\ debug
    /\ last.res.kind = "Ok"
    /\ \E i, j \in 1..Len(last.res.spans) :
          /\ last.res.spans[i][1] > 0
          /\ last.data[last.res.spans[i][1]] \in ContinuationBytes
          /\ last.res.spans[j][2] > 0
          /\ last.data[last.res.spans[j][2]] \in ContinuationBytes


----------------------------------------------------------------------------
(* The rule that InfinityRecursion names, checked under SpecBuild *)

\* the rule named n lies on a first-atom cycle
OnFirstAtomCycle(n) == <<n, n>> \in Closure(FirstAtomLinks(Range(ast)))

\* a first-atom cycle can be reached from the rule named n
ReachesFirstAtomCycle(n) ==
    \E m \in DeclaredNames :
        /\ OnFirstAtomCycle(m)
        /\ (m = n \/ <<n, m>> \in Closure(FirstAtomLinks(Range(ast))))

\* C13 (as claimed): when build fails with InfinityRecursion(n), the rule
\* named n lies on a first-atom cycle
C13_NamedRuleOnCycle ==
    built.kind = "InfinityRecursion" => OnFirstAtomCycle(built.rule)

\* C13 (amended): when build fails with InfinityRecursion(n), n is the first
\* rule, in declaration order, from which a first-atom cycle can be reached
C13_NamedRuleFirstReaching ==
    built.kind = "InfinityRecursion" =>
        \E i \in 1..Len(ast) :
            /\ ast[i].name = built.rule
            /\ ReachesFirstAtomCycle(ast[i].name)
            /\ \A j \in 1..(i - 1) : ~ReachesFirstAtomCycle(ast[j].name)

\* build has named a rule that only leads to a cycle, declared before the
\* rules of the cycle
C13_Witness ==
    /\ built.kind = "InfinityRecursion"
    /\ ~OnFirstAtomCycle(built.rule)
    /\ ReachesFirstAtomCycle(built.rule)


----------------------------------------------------------------------------
(* No backtracking into a sub-rule, and termination, checked under Spec *)

TreeOfSc ==
    BuildTree(<<Rule("s", <<RuleVariant(<<NonTerminal("a"), Terminal(<<"c">>)>>)>>),
                Rule("a", <<T(<<"a">>), T(<<"a", "b">>)>>)>>)

\* what the atom loop of variant v of the rule named n returns on data
VariantResult(n, v, data) ==
    MatchItems(debug, tree[n], v, 1, <<>>, data, 0, 0, <<>>, DepthLimit(data) + 1)

\* the text is derivable from the rule named n
Derivable(n, data) == Derives(<<NonTerminal(n)>>, 1, data, Len(data) + 1)

\* C14: no backtracking into a sub-rule that already succeeded: when the
\* atoms before a NonTerminal atom of a variant have matched and the sub-rule
\* fails, the variant fails; when the sub-rule matches (through its first
\* succeeding variant) and the atoms after it do not match what is left, the
\* variant is abandoned, whatever the sub-rule's other variants would have
\* allowed.  For <s> ::= <a> "c", <a> ::= "a" | "ab",
\* match_rule("s", ["s"], "abc") is NoMatches although "abc" is derivable
\* from s.
C14_NoBacktracking ==
    (IsMatch /\ NamesExist) =>
        /\ \A n \in DOMAIN tree : \A o \in 0..Len(last.data) :
           \A v \in 1..Len(tree[n].variants) :
           \A k \in 1..Len(tree[n].variants[v].items) :
              LET items == tree[n].variants[v].items
                  d == SliceFrom(last.data, o)
                  before == AtomsAdvance(SubSeq(items, 1, k - 1), 1, d)
                  at == SliceFrom(d, before)
                  m == MatchLen(items[k].name, at)
                  after == AtomsAdvance(SubSeq(items, k + 1, Len(items)), 1,
                                        SliceFrom(at, m.proc))
              IN (items[k].kind = "NonTerminal" /\ before >= 0) =>
                    /\ m.status = "Err" => VariantResult(n, v, d).status = "Err"
                    /\ (m.status = "Ok" /\ after < 0) =>
                          VariantResult(n, v, d).status # "Ok"
                    /\ (m.status = "Ok" /\ after >= 0) =>
                          /\ VariantResult(n, v, d).status = "Ok"
                          /\ VariantResult(n, v, d).proc = before + m.proc + after
        /\ (tree = TreeOfSc /\ last.rule = "s" /\ last.to_watch = <<"s">>
                /\ last.data = <<"a", "b", "c">>) =>
              /\ last.res = CallResult("NoMatches", "", <<>>, <<>>)
              /\ Derivable("s", last.data)

\* a match has failed on a text derivable from the initial rule: the
\* sub-rule of the only variant matched through its first variant, the atom
\* after it failed, and a later variant of the sub-rule would have let it match
C14_Witness ==
    /\ IsMatch /\ NamesExist
    /\ last.res.kind = "NoMatches"
    /\ Derivable(last.rule, last.data)
    /\ Len(tree[last.rule].variants) = 1
    /\ \E k \in 1..Len(tree[last.rule].variants[1].items) :
          LET items == tree[last.rule].variants[1].items
              before == AtomsAdvance(SubSeq(items, 1, k - 1), 1, last.data)
          IN /\ items[k].kind = "NonTerminal"
             /\ before >= 0
             /\ MatchLen(items[k].name, SliceFrom(last.data, before)).status = "Ok"
             /\ Len(tree[items[k].name].variants) > 1


\* every variant of the Engine has at least one atom and every Terminal has
\* non-empty content
NoEmptyAtoms ==
    \A n \in DOMAIN tree : \A v \in 1..Len(tree[n].variants) :
        LET items == tree[n].variants[v].items
        IN /\ Len(items) > 0
           /\ \A k \in 1..Len(items) :
                 items[k].kind = "Terminal" => items[k].content # <<>>

====
